---- MODULE Spec2Model ----
(***************************************************************************)
(* Model of the ChainBridge of internal/repository/rpc: the block observer *)
(* loop (observeBlocks), its shutdown (terminate / Close), the headers     *)
(* proxy channel, the singleflight guarded DefaultCallOpts and the lazily  *)
(* created SFC contract handles.                                           *)
(*                                                                         *)
(* The transport (go-ethereum rpc.Client) is the environment: it may fail  *)
(* a subscribe call, push an error into a live subscription's error        *)
(* channel, and send headers into chain.headers while a subscription is    *)
(* live.  In Spec, LiveSpec, SpecShutdown and SpecHeads the client is      *)
(* closed only by Close(), after terminate(), so the error channel never   *)
(* yields a nil error while the loop is running; SpecQuit adds a holder of *)
(* Connection() that closes the client under the running loop.             *)
(***************************************************************************)
EXTENDS Naturals, Integers, Sequences, FiniteSets, TLC

\* ---------------------------------------------------------------- bounds
NumClosers == 2      \* goroutines that may call Close()
MaxCalls   == 3      \* Close() calls made in one run, over all callers
MaxSubs    == 2      \* subscriptions the transport grants in one run
MaxHeads   == 3      \* head notifications the transport sends in one run
MaxBlock   == 2      \* distinct header payloads
NumReaders == 2      \* goroutines receiving from ObservedBlockProxy()
HeadCap    == 2      \* rpcHeadProxyChannelCapacity, scaled down
NumCallers == 2      \* goroutines that may call DefaultCallOpts()
MaxDo      == 3      \* DefaultCallOpts() calls made in one run
NumUsers   == 2      \* goroutines that may call SfcContract() / SfcAbi()
MaxLazy    == 3      \* SfcContract() / SfcAbi() calls made in one run
MaxGas     == 2      \* GasEstimate() calls made in one run
MaxTrx     == 2      \* distinct transactions asked about
MaxGasVal  == 2      \* distinct estimates the node may answer
MaxErrLen  == 3      \* words in an error text of the node

\* capacity of chain.sigClose: make(chan bool, 1)
SigCloseCap == 1

Closers == 1..NumClosers
SubIds  == 1..MaxSubs
Blocks  == 1..MaxBlock
Readers == 1..NumReaders
Callers == 1..NumCallers
CallIds == 1..MaxDo
Users   == 1..NumUsers
Handles == {"sfcContract", "sfcAbi"}
Trxs    == 1..MaxTrx
GasVals == 1..MaxGasVal

\* Error texts are sequences of words; the empty text stands for no text.
Words == {"missing", "value", "nonce"}

ErrTexts == UNION {[1..n -> Words] : n \in 1..MaxErrLen}

\* What an rpc call, or GasEstimate itself, yields: a value and a nil error
\* (val # 0, isErr = FALSE), or no value and an error with a text.
NoOutcome == [val |-> 0, isErr |-> FALSE, text |-> <<>>]

Outcomes ==
    {[val |-> v, isErr |-> FALSE, text |-> <<>>] : v \in GasVals}
        \cup {[val |-> 0, isErr |-> TRUE, text |-> t] : t \in ErrTexts}

VARIABLES
    pc,         \* position of the observeBlocks goroutine
    sub,        \* its local variable sub: 0 is nil, else a subscription id
    timer,      \* the retry timer tm: "none", "armed" or "fired"
    subState,   \* transport side of each subscription
    unsubCount, \* calls of Unsubscribe() per subscription
    sigClose,   \* number of values buffered in chain.sigClose
    wg,         \* counter of chain.wg
    headers,    \* chain.headers: sequence of notifications (by identity)
    received,   \* <<payload, subscription>> of every notification the
                \* transport sent, in order
    taken,      \* <<reader, notification>> of every receive, in order
    fullAt,     \* notifications sent when the channel first was full (0:
                \* it never was)
    pcC,        \* position of each Close() caller
    ncalls,     \* Close() calls started
    nret,       \* terminate() calls that returned
    sigSent,    \* values ever put on chain.sigClose
    rpcClosed,  \* chain.rpc / chain.eth closed
    pcAtSend,   \* where the loop was when the first signal was sent
    raced,      \* the loop took a subscription error while a signal was ready
    overlap,    \* some Close() call started while another was in progress
    late,       \* the caller's Close() started after the loop took a signal
    \* chain.cg, the singleflight.Group behind DefaultCallOpts()
    pcD,        \* position of each DefaultCallOpts() caller
    inflight,   \* g.m["default-call-opts"]: 0 is absent, else a call
    leader,     \* the caller that created each call
    callVal,    \* c.val of each call: 0 is unset, else the *bind.CallOpts
    callDone,   \* c.wg of each call is done
    myCall,     \* the call each caller holds
    result,     \* what each caller's last DefaultCallOpts() returned
    nExec,      \* executions of the function passed to cg.Do
    execBy,     \* the caller that ran each execution
    nDo,        \* DefaultCallOpts() calls started
    allIn,      \* every caller was inside its first call at the same time
    \* chain.sfcContract and chain.sfcAbi
    pcL,        \* position of each SfcContract() / SfcAbi() caller
    hOf,        \* the handle each caller is asking for
    field,      \* the two fields: 0 is nil, else the instance
    local,      \* the instance a caller has constructed (0: none)
    failed,     \* the caller's construction returned an error
    nCons,      \* instances constructed per handle
    obtained,   \* instances returned to callers per handle
    replaced,   \* a non-nil field was overwritten
    nLazy,      \* SfcContract() / SfcAbi() calls started
    retried,    \* a call found the field nil after a call for the same handle
                \* had panicked
    \* GasEstimate() and GasEstimateWithBlock()
    pcG,        \* position of the GasEstimate() caller
    trx,        \* the transaction it asks about (0: none)
    res1,       \* outcome of the rpc call made by GasEstimate
    res2,       \* outcome of the rpc call made by GasEstimateWithBlock
    rpcCalls,   \* <<transaction, block tag>> of the eth_estimateGas calls made
    gasRet,     \* what GasEstimate() returned
    nGas        \* GasEstimate() calls started

obsVars == <<pc, sub, timer, subState, unsubCount, sigClose, wg, headers,
             received, taken, fullAt, pcC, ncalls, nret, sigSent, rpcClosed,
             pcAtSend, raced, overlap, late>>

cacheVars == <<pcD, inflight, leader, callVal, callDone, myCall, result,
               nExec, execBy, nDo, allIn>>

lazyVars == <<pcL, hOf, field, local, failed, nCons, obtained, replaced,
              nLazy, retried>>

gasVars == <<pcG, trx, res1, res2, rpcCalls, gasRet, nGas>>

vars == <<obsVars, cacheVars, lazyVars, gasVars>>

loopVars  == <<pc, sub, timer, subState, unsubCount, wg>>
headVars  == <<headers, received, taken, fullAt>>
closeVars == <<pcC, ncalls, nret, rpcClosed, overlap, late>>

\* ------------------------------------------------------------------ Init
\* New(): the channels are empty, run() has done wg.Add(1) and started
\* observeBlocks, which has not subscribed yet.
Init ==
    /\ pc = "subscribe"
    /\ sub = 0
    /\ timer = "none"
    /\ subState = [i \in SubIds |-> "none"]
    /\ unsubCount = [i \in SubIds |-> 0]
    /\ sigClose = 0
    /\ wg = 1
    /\ headers = <<>>
    /\ received = <<>>
    /\ taken = <<>>
    /\ fullAt = 0
    /\ pcC = [c \in Closers |-> "idle"]
    /\ ncalls = 0
    /\ nret = 0
    /\ sigSent = 0
    /\ rpcClosed = FALSE
    /\ pcAtSend = "none"
    /\ raced = FALSE
    /\ overlap = FALSE
    /\ late = [c \in Closers |-> FALSE]
    /\ pcD = [p \in Callers |-> "idle"]
    /\ inflight = 0
    /\ leader = [k \in CallIds |-> 0]
    /\ callVal = [k \in CallIds |-> 0]
    /\ callDone = [k \in CallIds |-> FALSE]
    /\ myCall = [p \in Callers |-> 0]
    /\ result = [p \in Callers |-> 0]
    /\ nExec = 0
    /\ execBy = [k \in CallIds |-> 0]
    /\ nDo = 0
    /\ allIn = FALSE
    /\ pcL = [u \in Users |-> "idle"]
    /\ hOf = [u \in Users |-> "sfcContract"]
    /\ field = [h \in Handles |-> 0]
    /\ local = [u \in Users |-> 0]
    /\ failed = [u \in Users |-> FALSE]
    /\ nCons = [h \in Handles |-> 0]
    /\ obtained = [h \in Handles |-> {}]
    /\ replaced = FALSE
    /\ nLazy = 0
    /\ retried = FALSE
    /\ pcG = "idle"
    /\ trx = 0
    /\ res1 = NoOutcome
    /\ res2 = NoOutcome
    /\ rpcCalls = <<>>
    /\ gasRet = NoOutcome
    /\ nGas = 0

\* ---------------------------------------------------------- the transport
\* Ids the transport has not handed out yet.
FreshSubs == {i \in SubIds : subState[i] = "none"}

NewSubId == CHOOSE i \in FreshSubs : \A j \in FreshSubs : i <= j

\* blockSubscription(): EthSubscribe either fails (nil) or returns a new
\* live subscription feeding chain.headers; on a closed client it fails.
BlockSubscription(ok) ==
    IF ok
    THEN /\ ~rpcClosed
         /\ FreshSubs # {}
         /\ sub' = NewSubId
         /\ subState' = [subState EXCEPT ![NewSubId] = "live"]
    ELSE /\ sub' = 0
         /\ UNCHANGED subState

\* The top of the for loop after a subscribe attempt: with sub == nil a new
\* timer is created and the loop waits on it, else it waits on the
\* subscription.
LoopTop ==
    IF sub' = 0
    THEN pc' = "wait_timer" /\ timer' = "armed"
    ELSE pc' = "wait_sub" /\ UNCHANGED timer

\* sub = chain.blockSubscription() before the loop.
LoopSubscribe ==
    /\ pc = "subscribe"
    /\ \E ok \in BOOLEAN : BlockSubscription(ok)
    /\ LoopTop
    /\ UNCHANGED <<unsubCount, sigClose, wg, headVars, closeVars, sigSent,
                   pcAtSend, raced,
                   cacheVars, lazyVars, gasVars>>

\* A loop that gives up when the retry timer expires.
LoopTimerTick_GiveUp ==
    /\ pc = "wait_timer"
    /\ timer = "fired"
    /\ pc' = "defer"
    /\ timer' = "none"
    /\ UNCHANGED <<sub, subState, unsubCount, sigClose, wg, headVars,
                   closeVars, sigSent, pcAtSend, raced,
                   cacheVars, lazyVars, gasVars>>

\* case <-tm.C: the timer fired; the loop goes on to subscribe again.
LoopTimerTick ==
    /\ pc = "wait_timer"
    /\ timer = "fired"
    /\ pc' = "resubscribe"
    /\ timer' = "none"
    /\ UNCHANGED <<sub, subState, unsubCount, sigClose, wg, headVars,
                   closeVars, sigSent, pcAtSend, raced,
                   cacheVars, lazyVars, gasVars>>

\* sub = chain.blockSubscription(); continue
LoopResubscribe ==
    /\ pc = "resubscribe"
    /\ \E ok \in BOOLEAN : BlockSubscription(ok)
    /\ LoopTop
    /\ UNCHANGED <<unsubCount, sigClose, wg, headVars, closeVars, sigSent,
                   pcAtSend, raced,
                   cacheVars, lazyVars, gasVars>>

\* A loop that, signalled while it waits on the timer, tries one last
\* subscribe before it returns.
LoopSigClose_LastTry ==
    /\ pc \in {"wait_timer", "wait_sub"}
    /\ sigClose > 0
    /\ sigClose' = sigClose - 1
    /\ pc' = "defer"
    /\ IF pc = "wait_timer"
       THEN \E ok \in BOOLEAN : BlockSubscription(ok)
       ELSE UNCHANGED <<sub, subState>>
    /\ UNCHANGED <<timer, unsubCount, wg, headVars, closeVars,
                   sigSent, pcAtSend, raced,
                   cacheVars, lazyVars, gasVars>>

\* A loop that listens to sigClose only while it holds a subscription.
LoopSigClose_OnlySubscribed ==
    /\ pc = "wait_sub"
    /\ sigClose > 0
    /\ sigClose' = sigClose - 1
    /\ pc' = "defer"
    /\ UNCHANGED <<sub, timer, subState, unsubCount, wg, headVars, closeVars,
                   sigSent, pcAtSend, raced,
                   cacheVars, lazyVars, gasVars>>

\* case <-chain.sigClose: return, in either select.
LoopSigClose ==
    /\ pc \in {"wait_timer", "wait_sub"}
    /\ sigClose > 0
    /\ sigClose' = sigClose - 1
    /\ pc' = "defer"
    /\ UNCHANGED <<sub, timer, subState, unsubCount, wg, headVars, closeVars,
                   sigSent, pcAtSend, raced,
                   cacheVars, lazyVars, gasVars>>

\* A loop that keeps the reference after a subscription error.
LoopSubErr_KeepRef ==
    /\ pc = "wait_sub"
    /\ subState[sub] = "failed"
    /\ subState' = [subState EXCEPT ![sub] = "dead"]
    /\ raced' = (raced \/ sigClose > 0)
    /\ UNCHANGED <<pc, sub, timer, unsubCount, sigClose, wg, headVars,
                   closeVars, sigSent, pcAtSend, cacheVars, lazyVars, gasVars>>

\* A loop that subscribes again at once after a subscription error.
LoopSubErr_RetryNow ==
    /\ pc = "wait_sub"
    /\ subState[sub] = "failed"
    /\ subState' = [subState EXCEPT ![sub] = "dead"]
    /\ sub' = 0
    /\ pc' = "resubscribe"
    /\ raced' = (raced \/ sigClose > 0)
    /\ UNCHANGED <<timer, unsubCount, sigClose, wg, headVars, closeVars,
                   sigSent, pcAtSend, cacheVars, lazyVars, gasVars>>

\* case err := <-sub.Err(): log it, sub = nil, and back to the loop top.
LoopSubErr ==
    /\ pc = "wait_sub"
    /\ subState[sub] = "failed"
    /\ subState' = [subState EXCEPT ![sub] = "dead"]
    /\ sub' = 0
    /\ LoopTop
    /\ raced' = (raced \/ sigClose > 0)
    /\ UNCHANGED <<unsubCount, sigClose, wg, headVars, closeVars, sigSent,
                   pcAtSend,
                   cacheVars, lazyVars, gasVars>>

\* sub.Unsubscribe(): the transport stops sending on chain.headers.
Unsubscribe(s) ==
    /\ subState' = [subState EXCEPT ![s] = "unsub"]
    /\ unsubCount' = [unsubCount EXCEPT ![s] = @ + 1]

\* A deferred function that unsubscribes twice.
LoopDefer_UnsubscribeTwice ==
    /\ pc = "defer"
    /\ IF sub # 0
       THEN /\ subState' = [subState EXCEPT ![sub] = "unsub"]
            /\ unsubCount' = [unsubCount EXCEPT ![sub] = @ + 2]
       ELSE UNCHANGED <<subState, unsubCount>>
    /\ pc' = "wgdone"
    /\ UNCHANGED <<sub, timer, sigClose, wg, headVars, closeVars, sigSent,
                   pcAtSend, raced,
                   cacheVars, lazyVars, gasVars>>

\* A deferred function that forgets the subscription.
LoopDefer_NoUnsubscribe ==
    /\ pc = "defer"
    /\ pc' = "wgdone"
    /\ UNCHANGED <<sub, timer, subState, unsubCount, sigClose, wg, headVars,
                   closeVars, sigSent, pcAtSend, raced,
                   cacheVars, lazyVars, gasVars>>

\* The deferred function, first part: if sub != nil { sub.Unsubscribe() }.
LoopDefer ==
    /\ pc = "defer"
    /\ IF sub # 0 THEN Unsubscribe(sub) ELSE UNCHANGED <<subState, unsubCount>>
    /\ pc' = "wgdone"
    /\ UNCHANGED <<sub, timer, sigClose, wg, headVars, closeVars, sigSent,
                   pcAtSend, raced,
                   cacheVars, lazyVars, gasVars>>

\* A deferred function that reports done only when it held a subscription.
LoopWgDone_OnlySubscribed ==
    /\ pc = "wgdone"
    /\ wg' = IF sub # 0 THEN wg - 1 ELSE wg
    /\ pc' = "done"
    /\ UNCHANGED <<sub, timer, subState, unsubCount, sigClose, headVars,
                   closeVars, sigSent, pcAtSend, raced,
                   cacheVars, lazyVars, gasVars>>

\* The deferred function, last part: chain.wg.Done(); the goroutine ends.
LoopWgDone ==
    /\ pc = "wgdone"
    /\ wg' = wg - 1
    /\ pc' = "done"
    /\ UNCHANGED <<sub, timer, subState, unsubCount, sigClose, headVars,
                   closeVars, sigSent, pcAtSend, raced,
                   cacheVars, lazyVars, gasVars>>

\* The retry interval (chainHeadsObserverSubscribeTick) elapses.
TimerFire ==
    /\ timer = "armed"
    /\ timer' = "fired"
    /\ UNCHANGED <<pc, sub, subState, unsubCount, sigClose, wg, headVars,
                   closeVars, sigSent, pcAtSend, raced,
                   cacheVars, lazyVars, gasVars>>

\* The transport reports a failure of a live subscription on its error
\* channel.
SubFail(s) ==
    /\ subState[s] = "live"
    /\ subState' = [subState EXCEPT ![s] = "failed"]
    /\ UNCHANGED <<pc, sub, timer, unsubCount, sigClose, wg, headVars,
                   closeVars, sigSent, pcAtSend, raced,
                   cacheVars, lazyVars, gasVars>>

TransportFail == \E s \in SubIds : SubFail(s)

\* The *rpc.Client that Connection() hands out is closed by its holder while
\* the loop runs: the error channel of a live subscription yields nil.
ClientQuit ==
    /\ ~rpcClosed
    /\ pc \notin {"defer", "wgdone", "done"}
    /\ rpcClosed' = TRUE
    /\ subState' = [s \in SubIds |-> IF subState[s] = "live" THEN "quit"
                                                            ELSE subState[s]]
    /\ UNCHANGED <<pc, sub, timer, unsubCount, sigClose, wg, headVars, pcC,
                   ncalls, nret, overlap, late, sigSent, pcAtSend, raced,
                   cacheVars, lazyVars, gasVars>>

\* case err := <-sub.Err() with err == nil: err.Error() dereferences nil and
\* panics; nothing recovers, so after the deferred function the process
\* dies.
LoopSubErrNil ==
    /\ pc = "wait_sub"
    /\ subState[sub] = "quit"
    /\ pc' = "panicked"
    /\ UNCHANGED <<sub, timer, subState, unsubCount, sigClose, wg, headVars,
                   closeVars, sigSent, pcAtSend, raced,
                   cacheVars, lazyVars, gasVars>>

\* ------------------------------------------------- the headers channel
\* The notifications sent so far are numbered 1..Len(received); the channel
\* holds them by number (each is a distinct *etc.Header).
LiveSub == CHOOSE s \in SubIds : subState[s] = "live"

\* A transport that drops a header equal to the one it sent last.
DeliverHead_Dedup(b) ==
    /\ \E s \in SubIds : subState[s] = "live"
    /\ Len(received) < MaxHeads
    /\ Len(headers) < HeadCap
    /\ received' = Append(received, <<b, LiveSub>>)
    /\ headers' = IF received # <<>> /\ received[Len(received)][1] = b
                  THEN headers
                  ELSE Append(headers, Len(received) + 1)
    /\ UNCHANGED <<loopVars, sigClose, taken, fullAt, closeVars, sigSent, pcAtSend,
                   raced, cacheVars, lazyVars, gasVars>>

\* A channel that makes room by dropping its oldest notification.
DeliverHead_DropOldest(b) ==
    /\ \E s \in SubIds : subState[s] = "live"
    /\ Len(received) < MaxHeads
    /\ received' = Append(received, <<b, LiveSub>>)
    /\ headers' = IF Len(headers) < HeadCap
                  THEN Append(headers, Len(received) + 1)
                  ELSE Append(Tail(headers), Len(received) + 1)
    /\ fullAt' = IF fullAt = 0 /\ Len(headers') = HeadCap
                 THEN Len(received) + 1 ELSE fullAt
    /\ UNCHANGED <<loopVars, sigClose, taken, closeVars, sigSent, pcAtSend,
                   raced, cacheVars, lazyVars, gasVars>>

\* The transport sends a header into chain.headers (the channel handed to
\* EthSubscribe); the send blocks while the channel is full.
DeliverHead(b) ==
    /\ \E s \in SubIds : subState[s] = "live"
    /\ Len(received) < MaxHeads
    /\ Len(headers) < HeadCap
    /\ received' = Append(received, <<b, LiveSub>>)
    /\ headers' = Append(headers, Len(received) + 1)
    /\ fullAt' = IF fullAt = 0 /\ Len(headers) + 1 = HeadCap
                 THEN Len(received) + 1 ELSE fullAt
    /\ UNCHANGED <<loopVars, sigClose, taken, closeVars, sigSent, pcAtSend,
                   raced,
                   cacheVars, lazyVars, gasVars>>

TransportHead == \E b \in Blocks : DeliverHead(b)

\* A receive that leaves the notification in the channel (a broadcast).
ReaderRecv_Peek(r) ==
    /\ Len(headers) > 0
    /\ taken' = Append(taken, <<r, Head(headers)>>)
    /\ UNCHANGED <<loopVars, sigClose, headers, received, fullAt, closeVars,
                   sigSent,
                   pcAtSend, raced, cacheVars, lazyVars, gasVars>>

\* A consumer receives from the channel ObservedBlockProxy() returned.
ReaderRecv(r) ==
    /\ Len(headers) > 0
    /\ taken' = Append(taken, <<r, Head(headers)>>)
    /\ headers' = Tail(headers)
    /\ UNCHANGED <<loopVars, sigClose, received, fullAt, closeVars, sigSent,
                   pcAtSend, raced,
                   cacheVars, lazyVars, gasVars>>

Consume == \E r \in Readers : ReaderRecv(r)

\* ------------------------------------------------------- Close/terminate
\* A goroutine calls Close(), which calls terminate().
CloseCall(c) ==
    /\ pcC[c] = "idle"
    /\ ncalls < MaxCalls
    /\ pcC' = [pcC EXCEPT ![c] = "send"]
    /\ ncalls' = ncalls + 1
    /\ overlap' = (overlap \/ \E d \in Closers : pcC[d] # "idle")
    /\ late' = [late EXCEPT ![c] = pc \in {"defer", "wgdone", "done"}]
    /\ UNCHANGED <<loopVars, sigClose, headVars, nret, sigSent, rpcClosed,
                   pcAtSend, raced,
                   cacheVars, lazyVars, gasVars>>

\* A send on an unbuffered sigClose: it completes only with the loop at a
\* select.
TerminateSend_Unbuffered(c) ==
    /\ pcC[c] = "send"
    /\ sigClose < SigCloseCap
    /\ pc \in {"wait_timer", "wait_sub"}
    /\ sigClose' = sigClose + 1
    /\ sigSent' = sigSent + 1
    /\ pcAtSend' = IF sigSent = 0 THEN pc ELSE pcAtSend
    /\ pcC' = [pcC EXCEPT ![c] = "wait"]
    /\ UNCHANGED <<loopVars, headVars, ncalls, nret, rpcClosed, overlap, late,
                   raced,
                   cacheVars, lazyVars, gasVars>>

\* chain.sigClose <- true: blocks while the buffer is full.
TerminateSend(c) ==
    /\ pcC[c] = "send"
    /\ sigClose < SigCloseCap
    /\ sigClose' = sigClose + 1
    /\ sigSent' = sigSent + 1
    /\ pcAtSend' = IF sigSent = 0 THEN pc ELSE pcAtSend
    /\ pcC' = [pcC EXCEPT ![c] = "wait"]
    /\ UNCHANGED <<loopVars, headVars, ncalls, nret, rpcClosed, overlap, late,
                   raced,
                   cacheVars, lazyVars, gasVars>>

\* A barrier that releases one waiter only.
TerminateWait_ReleaseOne(c) ==
    /\ pcC[c] = "wait"
    /\ wg = 0
    /\ nret = 0
    /\ pcC' = [pcC EXCEPT ![c] = "conn"]
    /\ nret' = nret + 1
    /\ UNCHANGED <<loopVars, sigClose, headVars, ncalls, sigSent, rpcClosed,
                   overlap, late, pcAtSend, raced,
                   cacheVars, lazyVars, gasVars>>

\* A terminate() that does not wait for the loop.
TerminateWait_NoWait(c) ==
    /\ pcC[c] = "wait"
    /\ pcC' = [pcC EXCEPT ![c] = "conn"]
    /\ nret' = nret + 1
    /\ UNCHANGED <<loopVars, sigClose, headVars, ncalls, sigSent, rpcClosed,
                   overlap, late, pcAtSend, raced,
                   cacheVars, lazyVars, gasVars>>

\* chain.wg.Wait(): returns when the counter is zero; terminate() returns.
TerminateWait(c) ==
    /\ pcC[c] = "wait"
    /\ wg = 0
    /\ pcC' = [pcC EXCEPT ![c] = "conn"]
    /\ nret' = nret + 1
    /\ UNCHANGED <<loopVars, sigClose, headVars, ncalls, sigSent, rpcClosed,
                   overlap, late, pcAtSend, raced,
                   cacheVars, lazyVars, gasVars>>

\* The rest of Close(): chain.rpc.Close(); chain.eth.Close().
CloseConn(c) ==
    /\ pcC[c] = "conn"
    /\ rpcClosed' = TRUE
    /\ pcC' = [pcC EXCEPT ![c] = "idle"]
    /\ UNCHANGED <<loopVars, sigClose, headVars, ncalls, nret, sigSent,
                   overlap, late, pcAtSend, raced,
                   cacheVars, lazyVars, gasVars>>

Closing ==
    \E c \in Closers :
        \/ CloseCall(c)
        \/ TerminateSend(c)
        \/ TerminateWait(c)
        \/ CloseConn(c)

\* ------------------------------------------------------ DefaultCallOpts
\* chain.cg.Do("default-call-opts", fn) of golang.org/x/sync/singleflight:
\* under g.mu a caller either finds a call for the key in g.m and waits for
\* it, or puts a new call into g.m and runs fn; when fn has returned the
\* call is marked done and the key deleted from g.m, under g.mu again.

\* A goroutine calls DefaultCallOpts().
DoCall(p) ==
    /\ pcD[p] = "idle"
    /\ nDo < MaxDo
    /\ nDo' = nDo + 1
    /\ pcD' = [pcD EXCEPT ![p] = "enter"]
    /\ myCall' = [myCall EXCEPT ![p] = 0]
    /\ allIn' = (allIn \/ (nDo + 1 = NumCallers
                            /\ \A q \in Callers \ {p} : pcD[q] = "enter"))
    /\ UNCHANGED <<inflight, leader, callVal, callDone, result, nExec, execBy,
                   obsVars, lazyVars, gasVars>>

\* The first critical section of Do: join the call in flight, or become
\* the one that runs fn.
DoEnter(p) ==
    /\ pcD[p] = "enter"
    /\ IF inflight # 0
       THEN /\ myCall' = [myCall EXCEPT ![p] = inflight]
            /\ pcD' = [pcD EXCEPT ![p] = "waiting"]
            /\ UNCHANGED <<inflight, leader>>
       ELSE LET k == Cardinality({j \in CallIds : leader[j] # 0}) + 1 IN
            /\ k \in CallIds
            /\ inflight' = k
            /\ leader' = [leader EXCEPT ![k] = p]
            /\ myCall' = [myCall EXCEPT ![p] = k]
            /\ pcD' = [pcD EXCEPT ![p] = "exec"]
    /\ UNCHANGED <<callVal, callDone, result, nExec, execBy, nDo, allIn,
                   obsVars, lazyVars, gasVars>>

\* c.val, c.err = fn(): fn builds a new bind.CallOpts and returns its address.
DoExec(p) ==
    /\ pcD[p] = "exec"
    /\ nExec' = nExec + 1
    /\ execBy' = [execBy EXCEPT ![nExec + 1] = p]
    /\ callVal' = [callVal EXCEPT ![myCall[p]] = nExec + 1]
    /\ pcD' = [pcD EXCEPT ![p] = "finish"]
    /\ UNCHANGED <<inflight, leader, callDone, myCall, result, nDo, allIn,
                   obsVars, lazyVars, gasVars>>

\* The second critical section: c.wg.Done(), delete(g.m, key); Do returns
\* c.val to the caller that ran fn.
DoFinish(p) ==
    /\ pcD[p] = "finish"
    /\ callDone' = [callDone EXCEPT ![myCall[p]] = TRUE]
    /\ inflight' = IF inflight = myCall[p] THEN 0 ELSE inflight
    /\ result' = [result EXCEPT ![p] = callVal[myCall[p]]]
    /\ pcD' = [pcD EXCEPT ![p] = "ret"]
    /\ UNCHANGED <<leader, callVal, myCall, nExec, execBy, nDo, allIn,
                   obsVars, lazyVars, gasVars>>

\* A waiter that does not wait for the call to be done.
DoWait_NoBlock(p) ==
    /\ pcD[p] = "waiting"
    /\ result' = [result EXCEPT ![p] = callVal[myCall[p]]]
    /\ pcD' = [pcD EXCEPT ![p] = "ret"]
    /\ UNCHANGED <<inflight, leader, callVal, callDone, myCall, nExec, execBy,
                   nDo, allIn, obsVars, lazyVars, gasVars>>

\* c.wg.Wait(); return c.val: a caller that joined gets the call's value.
DoWait(p) ==
    /\ pcD[p] = "waiting"
    /\ callDone[myCall[p]]
    /\ result' = [result EXCEPT ![p] = callVal[myCall[p]]]
    /\ pcD' = [pcD EXCEPT ![p] = "ret"]
    /\ UNCHANGED <<inflight, leader, callVal, callDone, myCall, nExec, execBy,
                   nDo, allIn, obsVars, lazyVars, gasVars>>

\* return co.(*bind.CallOpts)
DoReturn(p) ==
    /\ pcD[p] = "ret"
    /\ pcD' = [pcD EXCEPT ![p] = "idle"]
    /\ UNCHANGED <<inflight, leader, callVal, callDone, myCall, result, nExec,
                   execBy, nDo, allIn, obsVars, lazyVars, gasVars>>

NextCache ==
    \E p \in Callers :
        \/ DoCall(p)
        \/ DoEnter(p)
        \/ DoExec(p)
        \/ DoFinish(p)
        \/ DoWait(p)
        \/ DoReturn(p)

SpecCache == Init /\ [][NextCache]_vars

\* What singleflight does guarantee: at most one execution of fn is in
\* flight at any time, each execution belongs to exactly one call of the
\* group, and the key is in the group exactly while that execution is in
\* flight; nothing is kept when it completes.
OncePerWindow ==
    LET running == {p \in Callers : pcD[p] \in {"exec", "finish"}} IN
    /\ Cardinality(running) <= 1
    /\ nExec = Cardinality({k \in CallIds : callDone[k]})
                + Cardinality({p \in Callers : pcD[p] = "finish"})
    /\ (inflight # 0) = (running # {})
    /\ \A p \in running : inflight = myCall[p]

\* A caller that joined a call another caller created.
Joined(p) == myCall[p] # 0 /\ leader[myCall[p]] # p

\* ------------------------------------------------- SfcContract / SfcAbi
\* Both methods test the field for nil, construct the instance if it is,
\* and return the field; nothing orders the callers' reads and writes.

\* A goroutine calls SfcContract() or SfcAbi().
LazyCall(u, h) ==
    /\ pcL[u] = "idle"
    /\ nLazy < MaxLazy
    /\ nLazy' = nLazy + 1
    /\ hOf' = [hOf EXCEPT ![u] = h]
    /\ local' = [local EXCEPT ![u] = 0]
    /\ failed' = [failed EXCEPT ![u] = FALSE]
    /\ pcL' = [pcL EXCEPT ![u] = "check"]
    /\ UNCHANGED <<field, nCons, obtained, replaced, retried, obsVars,
                   cacheVars, gasVars>>

\* if nil == chain.sfcContract / if nil == chain.sfcAbi
LazyCheck(u) ==
    /\ pcL[u] = "check"
    /\ pcL' = [pcL EXCEPT ![u] = IF field[hOf[u]] = 0 THEN "construct"
                                                     ELSE "ret"]
    /\ retried' = (retried \/ (field[hOf[u]] = 0
                                /\ \E v \in Users \ {u} :
                                      pcL[v] = "panic" /\ hOf[v] = hOf[u]))
    /\ UNCHANGED <<hOf, field, local, failed, nCons, obtained, replaced, nLazy,
                   obsVars, cacheVars, gasVars>>

\* A construction whose error is returned to the caller as a nil handle.
LazyConstruct_ReturnOnError(u, ok) ==
    /\ pcL[u] = "construct"
    /\ IF ok
       THEN /\ nCons' = [nCons EXCEPT ![hOf[u]] = @ + 1]
            /\ local' = [local EXCEPT ![u] = nCons[hOf[u]] + 1]
            /\ pcL' = [pcL EXCEPT ![u] = "store"]
            /\ UNCHANGED failed
       ELSE /\ failed' = [failed EXCEPT ![u] = TRUE]
            /\ pcL' = [pcL EXCEPT ![u] = "ret"]
            /\ UNCHANGED <<nCons, local>>
    /\ UNCHANGED <<hOf, field, obtained, replaced, nLazy, retried, obsVars,
                   cacheVars, gasVars>>

\* contracts.NewSfcContract(...) / abi.JSON(...): a new instance, or an
\* error.  SfcContract assigns the field whatever the outcome and panics
\* after it; SfcAbi panics before it assigns.
LazyConstruct(u, ok) ==
    /\ pcL[u] = "construct"
    /\ IF ok
       THEN /\ nCons' = [nCons EXCEPT ![hOf[u]] = @ + 1]
            /\ local' = [local EXCEPT ![u] = nCons[hOf[u]] + 1]
            /\ pcL' = [pcL EXCEPT ![u] = "store"]
            /\ UNCHANGED failed
       ELSE /\ failed' = [failed EXCEPT ![u] = TRUE]
            /\ pcL' = [pcL EXCEPT ![u] = IF hOf[u] = "sfcContract"
                                         THEN "store" ELSE "panic"]
            /\ UNCHANGED <<nCons, local>>
    /\ UNCHANGED <<hOf, field, obtained, replaced, nLazy, retried, obsVars,
                   cacheVars, gasVars>>

\* chain.sfcContract, err = ... / chain.sfcAbi = &ab
LazyStore(u) ==
    /\ pcL[u] = "store"
    /\ field' = [field EXCEPT ![hOf[u]] = local[u]]
    /\ replaced' = (replaced \/ (field[hOf[u]] # 0 /\ field[hOf[u]] # local[u]))
    /\ pcL' = [pcL EXCEPT ![u] = IF failed[u] THEN "panic" ELSE "ret"]
    /\ UNCHANGED <<hOf, local, failed, nCons, obtained, nLazy, retried,
                   obsVars, cacheVars, gasVars>>

\* return chain.sfcContract / return chain.sfcAbi
LazyReturn(u) ==
    /\ pcL[u] = "ret"
    /\ obtained' = [obtained EXCEPT ![hOf[u]] = @ \cup {field[hOf[u]]}]
    /\ pcL' = [pcL EXCEPT ![u] = "idle"]
    /\ UNCHANGED <<hOf, field, local, failed, nCons, replaced, nLazy, retried,
                   obsVars, cacheVars, gasVars>>

NextLazy ==
    \E u \in Users :
        \/ \E h \in Handles : LazyCall(u, h)
        \/ LazyCheck(u)
        \/ \E ok \in BOOLEAN : LazyConstruct(u, ok)
        \/ LazyStore(u)
        \/ LazyReturn(u)

SpecLazy == Init /\ [][NextLazy]_vars

\* ------------------------------------- GasEstimate / GasEstimateWithBlock
\* BlockTypeLatest = "latest"
BlockTypeLatest == "latest"

\* The words GasEstimate looks for in the error text.
MissingValue == <<"missing", "value">>

\* strings.Contains(s, substr): substr occurs in s as a contiguous part.
Contains(s, substr) ==
    \E i \in 0..(Len(s) - Len(substr)) :
        SubSeq(s, i + 1, i + Len(substr)) = substr

\* What a method returns for the outcome of its rpc call: &val and nil, or
\* nil and the error.
Returned(o) ==
    IF o.isErr THEN [val |-> 0, isErr |-> TRUE, text |-> o.text]
               ELSE [val |-> o.val, isErr |-> FALSE, text |-> <<>>]

\* A goroutine calls GasEstimate(trx).
GasEstimate(t) ==
    /\ pcG = "idle"
    /\ nGas < MaxGas
    /\ nGas' = nGas + 1
    /\ trx' = t
    /\ res1' = NoOutcome
    /\ res2' = NoOutcome
    /\ rpcCalls' = <<>>
    /\ gasRet' = NoOutcome
    /\ pcG' = "call"
    /\ UNCHANGED <<obsVars, cacheVars, lazyVars>>

\* err := chain.rpc.Call(&val, "eth_estimateGas", trx): the node answers with
\* an estimate or with an error.
GasRpcCall(o) ==
    /\ pcG = "call"
    /\ rpcCalls' = Append(rpcCalls, <<trx, "none">>)
    /\ res1' = o
    /\ pcG' = "decide"
    /\ UNCHANGED <<trx, res2, gasRet, nGas, obsVars, cacheVars, lazyVars>>

\* A GasEstimate that falls back on any error.
GasDecide_FallBackOnAnyError ==
    /\ pcG = "decide"
    /\ IF res1.isErr
       THEN pcG' = "call_block" /\ UNCHANGED gasRet
       ELSE gasRet' = Returned(res1) /\ pcG' = "ret"
    /\ UNCHANGED <<trx, res1, res2, rpcCalls, nGas, obsVars, cacheVars,
                   lazyVars>>

\* if err != nil: with "missing value" in the text go on to
\* GasEstimateWithBlock(trx), else return nil, err; without error return
\* &val, nil.
GasDecide ==
    /\ pcG = "decide"
    /\ IF res1.isErr /\ Contains(res1.text, MissingValue)
       THEN pcG' = "call_block" /\ UNCHANGED gasRet
       ELSE gasRet' = Returned(res1) /\ pcG' = "ret"
    /\ UNCHANGED <<trx, res1, res2, rpcCalls, nGas, obsVars, cacheVars,
                   lazyVars>>

\* GasEstimateWithBlock: err := chain.rpc.Call(&val, "eth_estimateGas", trx,
\* BlockTypeLatest).
GasWithBlockRpcCall(o) ==
    /\ pcG = "call_block"
    /\ rpcCalls' = Append(rpcCalls, <<trx, BlockTypeLatest>>)
    /\ res2' = o
    /\ pcG' = "ret_block"
    /\ UNCHANGED <<trx, res1, gasRet, nGas, obsVars, cacheVars, lazyVars>>

\* GasEstimateWithBlock returns nil, err or &val, nil, and GasEstimate
\* returns just that.
GasWithBlockReturn ==
    /\ pcG = "ret_block"
    /\ gasRet' = Returned(res2)
    /\ pcG' = "ret"
    /\ UNCHANGED <<trx, res1, res2, rpcCalls, nGas, obsVars, cacheVars,
                   lazyVars>>

\* The caller has the result.
GasReturn ==
    /\ pcG = "ret"
    /\ pcG' = "idle"
    /\ UNCHANGED <<trx, res1, res2, rpcCalls, gasRet, nGas, obsVars,
                   cacheVars, lazyVars>>

NextGas ==
    \/ \E t \in Trxs : GasEstimate(t)
    \/ \E o \in Outcomes : GasRpcCall(o)
    \/ GasDecide
    \/ \E o \in Outcomes : GasWithBlockRpcCall(o)
    \/ GasWithBlockReturn
    \/ GasReturn

SpecGas == Init /\ [][NextGas]_vars

\* -------------------------------------------------------- specification
\* The loop while it runs, and its exit.
Observing ==
    \/ LoopSubscribe
    \/ LoopTimerTick
    \/ LoopResubscribe
    \/ LoopSubErr

Loop ==
    \/ Observing
    \/ LoopSigClose
    \/ LoopDefer
    \/ LoopWgDone

Transport ==
    \/ TimerFire
    \/ TransportFail

\* The bridge with Close() callers and no consumer on the headers channel.
Next ==
    \/ Loop
    \/ Transport
    \/ TransportHead
    \/ Closing

Spec == Init /\ [][Next]_vars

\* The goroutines are scheduled, a subscribe call returns, a timer that was
\* started fires, and a select with several ready cases picks each of them
\* sooner or later (Go chooses among the ready cases at random).  Nothing
\* obliges anyone to call Close(), nor the transport to fail or to send.
Fairness ==
    /\ WF_vars(LoopSubscribe)
    /\ WF_vars(LoopResubscribe)
    /\ WF_vars(LoopTimerTick)
    /\ WF_vars(LoopSubErr)
    /\ SF_vars(LoopSigClose)
    /\ WF_vars(LoopDefer)
    /\ WF_vars(LoopWgDone)
    /\ WF_vars(TimerFire)
    /\ \A c \in Closers :
          /\ WF_vars(TerminateSend(c))
          /\ WF_vars(TerminateWait(c))
          /\ WF_vars(CloseConn(c))

\* The loop and the Close() callers alone: the headers the transport sends
\* are read by neither of them.
NextShutdown ==
    \/ Loop
    \/ Transport
    \/ Closing

LiveSpec == Init /\ [][NextShutdown]_vars /\ Fairness

\* The same without the scheduling assumptions.
SpecShutdown == Init /\ [][NextShutdown]_vars

\* The loop and the Close() callers, with a client that may be closed from
\* outside; nothing runs once the process has died.
NextQuit ==
    /\ pc # "panicked"
    /\ \/ NextShutdown
       \/ ClientQuit
       \/ LoopSubErrNil

SpecQuit == Init /\ [][NextQuit]_vars

\* The bridge with consumers on the headers channel, before any Close().
NextHeads ==
    \/ Observing
    \/ Transport
    \/ TransportHead
    \/ Consume

SpecHeads == Init /\ [][NextHeads]_vars

TypeOK ==
    /\ pc \in {"subscribe", "wait_timer", "resubscribe", "wait_sub",
               "defer", "wgdone", "done", "panicked"}
    /\ sub \in 0..MaxSubs
    /\ timer \in {"none", "armed", "fired"}
    /\ subState \in [SubIds -> {"none", "live", "failed", "dead", "unsub",
                                 "quit"}]
    /\ sigClose \in 0..SigCloseCap
    /\ wg \in 0..1
    /\ Len(headers) <= HeadCap
    /\ pcC \in [Closers -> {"idle", "send", "wait", "conn"}]

\* ------------------------------------------------------------------ claims

\* C1: a single call of terminate() returns, wherever the loop is when it is
\* called: once the only caller is at the send, terminate() returns (or the
\* call is no longer the only one).
C1_SingleTerminateReturns ==
    \A c \in Closers :
        (pcC[c] = "send" /\ ncalls = 1) ~> (nret >= 1 \/ ncalls > 1)

\* C1 witness: the only call returned, its signal was sent while the loop
\* waited on a live subscription, and the loop took a subscription error
\* while the signal was ready.
C1_Witness ==
    ncalls = 1 /\ nret = 1 /\ pcAtSend = "wait_sub" /\ raced

\* C2: once terminate() has returned the loop has exited, the subscription
\* it held is unsubscribed and none is live, and from then on the loop does
\* not move (no subscribe attempt), no subscription changes and no
\* notification is sent to the headers channel.
C2_AfterTerminate ==
    /\ [](nret > 0 =>
            /\ pc = "done"
            /\ wg = 0
            /\ sub # 0 => (subState[sub] = "unsub" /\ unsubCount[sub] = 1)
            /\ \A s \in SubIds : subState[s] # "live")
    /\ [][nret > 0 => UNCHANGED <<pc, sub, subState, received, headers>>]_vars

\* C2 witness: terminate() returned, the loop held a subscription at exit,
\* and the transport had sent notifications.
C2_Witness ==
    nret > 0 /\ sub # 0 /\ subState[sub] = "unsub" /\ Len(received) > 0

\* C3 (as claimed): after two Close() calls in sequence the bridge is in the
\* state the first call left: loop done, barrier at zero, sigClose empty.
C3_SecondCallNoOp ==
    (~overlap /\ ncalls = 2 /\ nret = 2 /\ \A c \in Closers : pcC[c] = "idle")
        => (pc = "done" /\ wg = 0 /\ sigClose = 0)

\* C4 (as claimed): a Close() that starts after the loop took the signal
\* puts no further signal on sigClose and is not blocked at the send.
C4_LateRequestNoOp ==
    \A c \in Closers :
        late[c] =>
            /\ pcC[c] \notin {"wait", "conn"}
            /\ ~(pcC[c] = "send" /\ sigClose = SigCloseCap)

\* C5 (as claimed): when all callers are inside DefaultCallOpts() at the
\* same time, the function is executed exactly once and all of them get the
\* same result.
C5_ExactlyOnce ==
    (allIn /\ nDo = NumCallers /\ \A p \in Callers : pcD[p] = "ret")
        => (nExec = 1 /\ \A p, q \in Callers : result[p] = result[q])

\* C6 (as claimed): over the lifetime of the group the function is executed
\* at most once.
C6_OncePerLifetime == nExec <= 1

\* C7: a caller that arrived while a call was in flight does not run the
\* function; it returns only when that call is done, with the value the
\* call's one execution (by the caller that created it) produced.
C7_WaiterSharesResult ==
    \A p \in Callers :
        /\ pcD[p] = "waiting" => (Joined(p) /\ leader[myCall[p]] # 0)
        /\ (pcD[p] = "ret" /\ Joined(p)) =>
              /\ callDone[myCall[p]]
              /\ result[p] # 0
              /\ result[p] = callVal[myCall[p]]
              /\ execBy[result[p]] = leader[myCall[p]]
              /\ execBy[result[p]] # p

\* C7 witness: a caller that joined a call in flight is about to return.
C7_Witness == \E p \in Callers : pcD[p] = "ret" /\ Joined(p)

\* C8 (as claimed): each handle is constructed at most once, a non-nil field
\* is never overwritten, and all callers get the same instance.
C8_ConstructedOnce ==
    /\ ~replaced
    /\ \A h \in Handles : nCons[h] <= 1 /\ Cardinality(obtained[h]) <= 1

\* The payloads of a sequence of notifications.
Payloads(ns) == [i \in 1..Len(ns) |-> received[ns[i]][1]]

\* The notifications received from the channel so far, in order.
TakenSeq == [i \in 1..Len(taken) |-> taken[i][2]]

\* C9: the notifications read from ObservedBlockProxy(), followed by those
\* still in the channel, are the notifications the transport sent, in the
\* order it sent them, and so are their payloads: none is reordered, dropped
\* or merged, also across a re-subscription.
C9_HeadersInOrder ==
    /\ TakenSeq \o headers = [i \in 1..Len(received) |-> i]
    /\ Payloads(TakenSeq \o headers) = [i \in 1..Len(received) |-> received[i][1]]

\* C9 witness: two notifications with the same payload, sent by two
\* subscriptions, have been read one after the other.
C9_Witness ==
    \E i \in 1..Len(taken) : \E j \in 1..Len(taken) :
        /\ j = i + 1
        /\ received[taken[i][2]][1] = received[taken[j][2]][1]
        /\ received[taken[i][2]][2] # received[taken[j][2]][2]

\* C10: every notification written to the channel is either still in it or
\* was received by exactly one reader, exactly once.
C10_ExactlyOneReader ==
    \A n \in 1..Len(received) :
        LET gets == {i \in 1..Len(taken) : taken[i][2] = n}
            held == {i \in 1..Len(headers) : headers[i] = n}
        IN  Cardinality(gets) + Cardinality(held) = 1

\* C10 witness: the channel is drained and two readers each received some of
\* the notifications written.
C10_Witness ==
    /\ Len(received) >= 2
    /\ headers = <<>>
    /\ \E i, j \in 1..Len(taken) : taken[i][1] # taken[j][1]

\* C11: the headers channel never holds more than its capacity; a
\* notification is written only while there is room (a write to a full
\* channel waits for a receive), it is appended behind those waiting, and a
\* notification leaves the channel only by being received, so every one
\* written stays readable until a reader takes it.
C11_BlocksWhenFull ==
    /\ [](Len(headers) <= HeadCap)
    /\ [](headers # <<>> => ENABLED Consume)
    /\ [][Len(received') > Len(received) =>
            /\ Len(headers) < HeadCap
            /\ headers' = Append(headers, Len(received'))]_vars
    /\ [][headers' # headers /\ received' = received =>
            /\ headers # <<>>
            /\ headers' = Tail(headers)
            /\ \E r \in Readers : taken' = Append(taken, <<r, Head(headers)>>)]_vars

\* C11 witness: the channel was full, and a further notification was
\* written after a reader took one.
C11_Witness ==
    /\ fullAt # 0
    /\ Len(received) > fullAt
    /\ taken # <<>>

\* A step in which the loop's subscribe call returns.
SubscribeAttempt == pc \in {"subscribe", "resubscribe"} /\ pc' # pc

\* C12: the loop comes to a re-subscribe only by taking the expiry of the
\* retry timer, which that consumes; the timer it waits on was started anew
\* when the loop found it had no subscription; a failed subscribe or a
\* subscription error sends the loop to wait on such a timer, never to a
\* subscribe; and each expiry taken is followed by one attempt.
C12_RetryAfterTimer ==
    /\ [](pc = "resubscribe" => (timer = "none" /\ sub = 0))
    /\ [](pc = "wait_timer" => (timer # "none" /\ sub = 0))
    /\ [][(pc' = "resubscribe" /\ pc # "resubscribe") =>
            (pc = "wait_timer" /\ timer = "fired" /\ timer' = "none")]_vars
    /\ [][(timer' = "armed" /\ timer # "armed") =>
            (timer = "none" /\ pc # "wait_timer" /\ pc' = "wait_timer")]_vars
    /\ [][(timer' = "fired" /\ timer # "fired") => timer = "armed"]_vars
    /\ [][((SubscribeAttempt \/ pc = "wait_sub") /\ sub' = 0 /\ pc' # pc
              /\ pc' # "defer") =>
            (pc' = "wait_timer" /\ timer' = "armed")]_vars
    /\ [][SubscribeAttempt => pc' \in {"wait_timer", "wait_sub"}]_vars

\* C12 witness: after an error on the first subscription the timer expired
\* and the next attempt gave the second subscription.
C12_Witness ==
    /\ pc = "wait_sub"
    /\ sub = 2
    /\ subState[1] = "dead"
    /\ timer = "none"

\* C13 (as claimed): nothing on a subscription's error channel, a nil error
\* included, crashes the process, and the loop exits only after a shutdown
\* signal was sent.
C13_ErrorsNeverFatal ==
    /\ pc # "panicked"
    /\ pc \in {"defer", "wgdone", "done"} => sigSent > 0

\* C14: whenever a Close() caller is at, or past, the closing of the rpc and
\* eth clients, the loop has exited, the barrier is at zero, and no
\* subscription is live or awaits its error being read; the one the loop
\* held is unsubscribed.
C14_CloseAfterLoopExit ==
    (rpcClosed \/ \E c \in Closers : pcC[c] = "conn") =>
        /\ pc = "done"
        /\ wg = 0
        /\ \A s \in SubIds : subState[s] \notin {"live", "failed"}
        /\ sub # 0 => subState[sub] = "unsub"

\* C14 witness: the clients are closed and the loop held a subscription when
\* it took the signal.
C14_Witness ==
    /\ rpcClosed
    /\ sub # 0
    /\ unsubCount[sub] = 1

\* The loop has left its for loop (it is in, or past, the deferred function).
Exited == pc \in {"defer", "wgdone", "done"}

\* C15: the loop waiting on the retry timer holds no subscription; taking
\* the signal there changes no subscription, and from then on to the end no
\* subscribe is attempted, Unsubscribe is called on nothing, and the loop
\* only runs through its deferred function to the end.
C15_ShutdownWithoutSubscription ==
    /\ [][(pc = "wait_timer" /\ pc' = "defer") =>
            /\ sub = 0
            /\ sigClose' = sigClose - 1
            /\ UNCHANGED <<sub, subState, unsubCount>>]_vars
    /\ [][(Exited /\ sub = 0) =>
            /\ UNCHANGED <<sub, subState, unsubCount>>
            /\ ~SubscribeAttempt
            /\ pc' # pc => <<pc, pc'>> \in {<<"defer", "wgdone">>,
                                             <<"wgdone", "done">>}]_vars
    /\ []((Exited /\ sub = 0) =>
            \A s \in SubIds : unsubCount[s] = 0 /\ subState[s] # "live")

\* C15 witness: the loop lost its subscription to an error, was signalled
\* while it waited on the timer, and has ended.
C15_Witness ==
    /\ pc = "done"
    /\ sub = 0
    /\ pcAtSend = "wait_timer"
    /\ subState[1] = "dead"

\* C16: the loop that takes the signal while it waits on a subscription
\* keeps that subscription and has called Unsubscribe on it, once, by the
\* time it reports itself done (wg.Done); no subscription is ever
\* unsubscribed twice, or unsubscribed while the loop is in its for loop;
\* and once the loop has ended nothing is subscribed or unsubscribed.
C16_UnsubscribeOnce ==
    /\ [](\A s \in SubIds : unsubCount[s] <= 1)
    /\ [](\A s \in SubIds : unsubCount[s] = 1 => (Exited /\ pc # "defer" /\ sub = s))
    /\ []((pc \in {"wgdone", "done"} /\ sub # 0) =>
            (unsubCount[sub] = 1 /\ subState[sub] = "unsub"))
    /\ [](wg = 0 => pc = "done")
    /\ [][(pc = "wait_sub" /\ pc' = "defer") =>
            (sub # 0 /\ UNCHANGED <<sub, subState, unsubCount>>)]_vars
    /\ [][pc = "done" =>
            UNCHANGED <<pc, sub, subState, unsubCount, wg>>]_vars

\* C16 witness: the signal was sent and taken while the loop waited on its
\* second subscription, which is unsubscribed once; the loop has ended.
C16_Witness ==
    /\ pc = "done"
    /\ sub = 2
    /\ pcAtSend = "wait_sub"
    /\ unsubCount = [s \in SubIds |-> IF s = 2 THEN 1 ELSE 0]

\* C17: the barrier counts the one loop run() started: it is 1 until the
\* loop ends and 0 from then on, it changes only in the step that ends the
\* loop (the deferred wg.Done, once, whichever select returned), and a
\* terminate() returns only with the barrier at 0 and the loop ended.
C17_BarrierCountsLoop ==
    /\ [](wg = IF pc = "done" THEN 0 ELSE 1)
    /\ [](wg >= 0)
    /\ [][wg' # wg =>
            (wg = 1 /\ wg' = 0 /\ pc = "wgdone" /\ pc' = "done")]_vars
    /\ [][nret' # nret => (wg = 0 /\ pc = "done" /\ nret' = nret + 1)]_vars
    /\ [](nret > 0 => wg = 0)

\* C17 witness: the loop left through the timer select, holding nothing, and
\* after its one decrement two calls of terminate() have returned.
C17_Witness ==
    /\ wg = 0
    /\ sub = 0
    /\ nret = 2

\* The subscriptions that are valid: live, or failed with the error unread.
Held == {s \in SubIds : subState[s] \in {"live", "failed"}}

\* C18: at most one subscription is valid at a time and it is the one the
\* loop refers to; the loop waits on an error channel only of a valid
\* subscription, the one its latest successful subscribe returned; it
\* subscribes only while it refers to none and none is valid, and gets a
\* subscription never handed out before; it drops the reference exactly when
\* it reads that subscription's error; an invalidated subscription stays so.
C18_OneSubscription ==
    /\ [](Cardinality(Held) <= 1 /\ Held \subseteq {sub})
    /\ [](pc = "wait_sub" =>
            /\ sub \in Held
            /\ \A s \in SubIds : subState[s] # "none" => s <= sub)
    /\ [](pc \in {"subscribe", "resubscribe", "wait_timer"} =>
            (sub = 0 /\ Held = {}))
    /\ [][(sub' # sub /\ sub' # 0) =>
            (SubscribeAttempt /\ sub = 0 /\ subState[sub'] = "none"
               /\ subState'[sub'] = "live")]_vars
    /\ [][(sub' # sub /\ sub' = 0) =>
            (pc = "wait_sub" /\ subState[sub] = "failed"
               /\ subState'[sub] = "dead")]_vars
    /\ [][\A s \in SubIds : subState[s] \in {"dead", "unsub"} =>
            subState'[s] = subState[s]]_vars

\* C18 witness: two subscriptions in turn were invalidated by an error and
\* dropped, and the loop waits on the timer holding none.
C18_Witness ==
    /\ pc = "wait_timer"
    /\ sub = 0
    /\ \A s \in SubIds : subState[s] = "dead"

\* C19: the loop starts with a subscribe attempt; an attempt that succeeds
\* takes it to the wait on the subscription and one that fails to the wait
\* on the timer; while no shutdown signal was sent the loop does not leave
\* its for loop, and from the wait on the timer it comes to a further
\* attempt, whose call returns, however often the attempts fail.
C19_RetriesForever ==
    /\ pc = "subscribe"
    /\ [][SubscribeAttempt =>
            \/ sub' # 0 /\ pc' = "wait_sub"
            \/ sub' = 0 /\ pc' = "wait_timer"]_vars
    /\ [](sigSent = 0 => ~Exited)
    /\ (pc = "wait_timer" /\ sigSent = 0) ~> (pc = "resubscribe" \/ sigSent > 0)
    /\ (pc \in {"subscribe", "resubscribe"}) ~> (pc \in {"wait_sub", "wait_timer"})

\* C19 witness: no shutdown was requested, the transport grants no further
\* subscription, and the loop is at yet another attempt.
C19_Witness ==
    /\ sigSent = 0
    /\ FreshSubs = {}
    /\ pc = "resubscribe"
    /\ sub = 0

\* The first signal was sent while the loop was inside a subscribe call.
SentDuringSubscribe == pcAtSend \in {"subscribe", "resubscribe"}

\* The loop is at a select with that signal still in sigClose, and moves.
SelectWithSignal ==
    /\ SentDuringSubscribe
    /\ sigClose > 0
    /\ pc \in {"wait_timer", "wait_sub"}
    /\ pc' # pc

C21_FailedConstructionPanics ==
    /\ [](\A u \in Users : failed[u] => pcL[u] \in {"store", "panic"})
    /\ [](\A h \in Handles : nCons[h] = 0 => field[h] = 0)
    /\ [][\A u \in Users : pcL[u] = "panic" => pcL'[u] = "panic"]_vars
    /\ [][\A u \in Users : (pcL[u] = "construct" /\ failed'[u]) =>
            /\ field' = field
            /\ pcL'[u] = IF hOf[u] = "sfcContract" THEN "store" ELSE "panic"]_vars
    /\ [][\A u \in Users : (failed[u] /\ pcL[u] = "store" /\ pcL'[u] # "store") =>
            (field'[hOf[u]] = 0 /\ pcL'[u] = "panic")]_vars
    /\ [][\A u \in Users :
            (pcL[u] = "check" /\ pcL'[u] # "check" /\ field[hOf[u]] = 0) =>
                pcL'[u] = "construct"]_vars

\* C21 witness: a call of SfcContract() has panicked, and a call that read
\* the field after that found it nil and is constructing again.
C21_Witness ==
    /\ retried
    /\ \E u, v \in Users :
          /\ pcL[v] = "panic" /\ hOf[v] = "sfcContract"
          /\ pcL[u] = "construct" /\ hOf[u] = "sfcContract"
          /\ field["sfcContract"] = 0

\* C22: when two calls of Close() have been made and no third follows, both
\* calls of terminate() return; a caller found waiting at the send on a full
\* sigClose has the loop still in its for loop, which takes the signal and
\* frees the buffer; and a caller at wg.Wait() with the loop ended can return.
C22_TwoTerminatesReturn ==
    /\ (ncalls = 2) ~> (nret = 2 \/ ncalls > 2)
    /\ [](\A c \in Closers :
            (ncalls <= 2 /\ pcC[c] = "send" /\ sigClose = SigCloseCap) =>
                ~Exited)
    /\ [](\A c \in Closers :
            (pcC[c] = "wait" /\ pc = "done") => ENABLED TerminateWait(c))

\* C22 witness: two calls of Close() overlapped, both started before the
\* loop took a signal, the second signal was sent after the loop had taken
\* the first, and both calls of terminate() have returned.
C22_Witness ==
    /\ ncalls = 2
    /\ nret = 2
    /\ overlap
    /\ \A c \in Closers : ~late[c]
    /\ sigSent = 2
    /\ sigClose = SigCloseCap

\* GasEstimate made the call of GasEstimateWithBlock.
FellBack == Len(rpcCalls) = 2

\* C23: when GasEstimate returns it has made the plain eth_estimateGas call
\* for its transaction, and the call with the "latest" tag for the same
\* transaction exactly when the first failed with "missing value" in the
\* error text; it made no other call; after the second call it returns that
\* call's outcome, after any other error the error and no value, and after
\* a success the estimate and no error.
C23_FallbackOnMissingValue ==
    /\ Len(rpcCalls) <= 2
    /\ pcG = "ret" =>
        /\ Len(rpcCalls) >= 1
        /\ rpcCalls[1] = <<trx, "none">>
        /\ FellBack <=> (res1.isErr /\ Contains(res1.text, MissingValue))
        /\ FellBack =>
              /\ rpcCalls[2] = <<trx, "latest">>
              /\ gasRet = res2
        /\ (~FellBack /\ res1.isErr) =>
              gasRet = [val |-> 0, isErr |-> TRUE, text |-> res1.text]
        /\ ~res1.isErr =>
              gasRet = [val |-> res1.val, isErr |-> FALSE, text |-> <<>>]

\* C23 witness: in its second call GasEstimate got an error with the words
\* in the middle of the text, fell back, and returns the error of the
\* fallback, which has the words too.
C23_Witness ==
    /\ pcG = "ret"
    /\ nGas = 2
    /\ res1.text = <<"nonce", "missing", "value">>
    /\ FellBack
    /\ gasRet.isErr
    /\ gasRet.text = MissingValue

====
